---------------------------- MODULE Spec2Model ----------------------------
(***************************************************************************)
(* Model of the AI political-columnist backend (FastAPI application):      *)
(*   main.py                              the three endpoints and the      *)
(*                                        process-wide news_cache          *)
(*   services/gemini_service.py           the search/draft/evaluate/       *)
(*                                        extract pipeline                 *)
(*   services/content_evaluation_service  _parse_evaluation_result         *)
(*   services/content_generation_service  extract_title_and_summary        *)
(*   schemas.py                           the pydantic request/response    *)
(*                                        constraints                      *)
(*                                                                         *)
(* Text is a sequence of one-character strings.  Hangul and emoji          *)
(* characters of the source are written as ASCII stand-ins, one sequence   *)
(* element per code point, so that len() of the source is Len() here.      *)
(***************************************************************************)
EXTENDS Integers, Sequences, FiniteSets, TLC

VARIABLES
    news_cache,  \* main.py:78   cache key -> [news_data, sources]
    pc,          \* per request slot: the await point the handler is at
    req,         \* per request slot: the validated request body
    loc,         \* per request slot: the handler's local variables
    resp,        \* per request slot: the HTTP response, once produced
    calls,       \* per request slot: external calls made by this request
    last,        \* summary of the request that finished most recently
    fnIn,        \* input of the pure function under check
    fnOut        \* its result, once applied

vars == <<news_cache, pc, req, loc, resp, calls, last, fnIn, fnOut>>

\* an absent record (Python None where an object is expected)
None == [none |-> TRUE]

Min(S) == CHOOSE x \in S : \A y \in S : x <= y
Max(S) == CHOOSE x \in S : \A y \in S : x >= y

(***************************************************************************)
(* Python string primitives over Text.                                     *)
(***************************************************************************)
Whitespace == {" ", "\t", "\r"}

\* s[:n]
Slice(s, n) == SubSeq(s, 1, IF n < Len(s) THEN n ELSE Len(s))

\* s[n:]
Drop(s, n) == SubSeq(s, n + 1, Len(s))

\* s.rstrip()
RECURSIVE RStrip(_)
RStrip(s) ==
    IF s = <<>> \/ s[Len(s)] \notin Whitespace THEN s
    ELSE RStrip(SubSeq(s, 1, Len(s) - 1))

\* s.lstrip()
RECURSIVE LStrip(_)
LStrip(s) ==
    IF s = <<>> \/ s[1] \notin Whitespace THEN s ELSE LStrip(Tail(s))

\* s.strip()
Strip(s) == LStrip(RStrip(s))

\* s.startswith(p)
StartsWith(s, p) == Len(s) >= Len(p) /\ SubSeq(s, 1, Len(p)) = p

\* s.endswith(p)
EndsWith(s, p) == Len(s) >= Len(p) /\ SubSeq(s, Len(s) - Len(p) + 1, Len(s)) = p

\* t in s
Contains(s, t) == \E i \in 0..(Len(s) - Len(t)) : SubSeq(s, i + 1, i + Len(t)) = t

\* s.split('\n')
RECURSIVE SplitLines(_)
SplitLines(s) ==
    LET nl == {i \in 1..Len(s) : s[i] = "\n"}
    IN  IF nl = {} THEN <<s>>
        ELSE <<SubSeq(s, 1, Min(nl) - 1)>> \o SplitLines(Drop(s, Min(nl)))

\* n copies of character c
Rep(c, n) == [i \in 1..n |-> c]

(***************************************************************************)
(* ContentGenerationService.extract_title_and_summary                      *)
(***************************************************************************)
SummaryLimit == 300
SummaryKeep == 297
Ellipsis == <<".", ".", ".">>

\* "## "
H2 == <<"#", "#", " ">>
\* the three reserved section emoji (speech balloon, firecracker, pushpin)
EmojiStance == "<speech>"
EmojiBody == "<firecracker>"
EmojiConclusion == "<pushpin>"

\* "정치 컬럼" (5 code points)
DefaultTitle == <<"J", "C", " ", "K", "L">>
\* "정치 이슈에 대한 균형잡힌 분석입니다." (21 code points)
DefaultSummary ==
    <<"J", "C", " ", "I", "S", "E", " ", "D", "H", " ",
      "G", "H", "J", "H", " ", "B", "S", "I", "N", "D", ".">>

\* content_generation_service.py:176-179
ClampSummaryLineBroken(line) ==
    IF Len(line) > SummaryLimit THEN Slice(line, SummaryLimit) \o Ellipsis ELSE line

ClampSummaryLine(line) ==
    IF Len(line) > SummaryLimit
    THEN RStrip(Slice(line, SummaryKeep)) \o Ellipsis
    ELSE line

\* content_generation_service.py:163
IsTitleHeading(line) ==
    /\ StartsWith(line, H2)
    /\ ~StartsWith(line, H2 \o <<EmojiStance>>)
    /\ ~StartsWith(line, H2 \o <<EmojiBody>>)
    /\ ~StartsWith(line, H2 \o <<EmojiConclusion>>)

\* content_generation_service.py:161-165
ExtractTitle(lines) ==
    LET hit == {i \in 1..Len(lines) : IsTitleHeading(Strip(lines[i]))}
    IN  IF hit = {} THEN DefaultTitle
        ELSE Strip(Drop(Strip(lines[Min(hit)]), 3))

\* content_generation_service.py:168-180: the second loop, from line i on;
\* the index of the line taken as summary, 0 when the loop ends without one
RECURSIVE SummaryLineIndex(_, _, _, _)
SummaryLineIndex(lines, i, title, found_title) ==
    IF i > Len(lines) THEN 0
    ELSE LET line == Strip(lines[i])
         IN  IF StartsWith(line, H2) /\ Contains(line, title)
             THEN SummaryLineIndex(lines, i + 1, title, TRUE)
             ELSE IF /\ found_title
                     /\ line # <<>>
                     /\ ~StartsWith(line, <<"#">>)
                     /\ ~StartsWith(line, H2)
                  THEN i
                  ELSE SummaryLineIndex(lines, i + 1, title, found_title)

\* content_generation_service.py:143-188
extract_title_and_summary(content) ==
    LET lines == SplitLines(content)
        title == ExtractTitle(lines)
        at    == SummaryLineIndex(lines, 1, title, FALSE)
    IN  [title   |-> title,
         summary |-> IF at = 0 THEN DefaultSummary
                     ELSE ClampSummaryLine(Strip(lines[at]))]

(***************************************************************************)
(* ContentEvaluationService: the model's JSON answer and its parsing.      *)
(* A JSON object is a function from the keys it holds; dict.get(k, d) is   *)
(* Get.  The booleans of the answer are written "True"/"False", any other  *)
(* JSON value in a typed field is "<invalid>".                             *)
(***************************************************************************)
WithKey(d, k, v) == [x \in DOMAIN d \cup {k} |-> IF x = k THEN v ELSE d[x]]

EmptyObject == [k \in {} |-> 0]

Get(d, k, default) == IF k \in DOMAIN d THEN d[k] ELSE default

Dims == {"format", "balance", "readability", "completeness", "objectivity"}

PassingThreshold == 85

Invalid == "<invalid>"

\* the exception every failure of the evaluator is turned into
ContentGenerationException == [ok |-> FALSE, error |-> "ContentGenerationException"]

\* core/exceptions.py:73-81: what search_recent_news turns every failure into
NewsSearchException == [ok |-> FALSE, error |-> "NewsSearchException"]

\* core/exceptions.py:36-81: the subclasses of CustomHTTPException and their
\* status codes
CustomStatus ==
    [ContentGenerationException |-> 500, NewsSearchException |-> 503,
     OpenAIAPIException |-> 503]

IsCustomHTTPException(exc) == exc.error \in DOMAIN CustomStatus

\* pydantic's ValidationError is a ValueError
IsValueError(exc) == exc.error \in {"ValueError", "ValidationError"}

\* schemas.py:140-146  EvaluationResult.model_validate: pass is a bool,
\* feedback and revisedContent are str
EvaluationResultValid(pass_status, feedback, revised_content) ==
    /\ pass_status \in {"True", "False"}
    /\ feedback # Invalid
    /\ revised_content # Invalid

\* content_evaluation_service.py:115
PassStatus(evaluation_data) == Get(evaluation_data, "pass", "False")

\* _parse_evaluation_result refusing an answer that lacks a dimension score
_parse_evaluation_result_strict(evaluation_data) ==
    LET scores_data     == Get(evaluation_data, "scores", <<>>)
        pass_status     == PassStatus(evaluation_data)
        feedback        == Get(evaluation_data, "feedback", "done")
        revised_content == Get(evaluation_data, "revisedContent", "")
    IN  IF /\ EvaluationResultValid(pass_status, feedback, revised_content)
           /\ \A d \in Dims : d \in DOMAIN scores_data
        THEN [ok             |-> TRUE,
              scores         |-> [d \in Dims |-> scores_data[d]],
              pass_          |-> (pass_status = "True"),
              feedback       |-> feedback,
              revisedContent |-> revised_content]
        ELSE ContentGenerationException

\* content_evaluation_service.py:93-143
_parse_evaluation_result(evaluation_data) ==
    LET scores_data     == Get(evaluation_data, "scores", <<>>)
        scores          == [d \in Dims |-> Get(scores_data, d, 0)]
        pass_status     == PassStatus(evaluation_data)
        feedback        == Get(evaluation_data, "feedback", "done")
        revised_content == Get(evaluation_data, "revisedContent", "")
    IN  IF EvaluationResultValid(pass_status, feedback, revised_content)
        THEN [ok             |-> TRUE,
              scores         |-> scores,
              pass_          |-> (pass_status = "True"),
              feedback       |-> feedback,
              revisedContent |-> revised_content]
        ELSE ContentGenerationException

(***************************************************************************)
(* Optional[int] fields: <<n>> is the integer n, <<>> is None.             *)
(***************************************************************************)
Some(n) == <<n>>
NoneInt == <<>>
\* str(x) as an f-string formats it
Str(o) == IF o = NoneInt THEN "None" ELSE ToString(o[1])

(***************************************************************************)
(* Generated columns.  A column travels through the pipeline by name;      *)
(* DocText is its text.  "" is the empty string.                           *)
(***************************************************************************)
DocText(name) ==
    CASE name = "colA" ->
           H2 \o <<"C", "o", "l", "u", "m", "n">> \o <<"\n", "\n">> \o Rep("a", 120)
      [] name = "colB" ->
           H2 \o <<"O", "t", "h", "e", "r", " ", "o", "n", "e">> \o <<"\n", "\n">>
              \o Rep("b", 299) \o <<" ">> \o Rep("b", 20)
      [] name = "thin" ->
           H2 \o <<"A", "b", "c">> \o <<"\n">> \o Rep("c", 20)
      [] OTHER -> <<>>

DocNames == {"colA", "colB", "thin", ""}

\* extract_title_and_summary of each column
TitleAndSummaryOf == [d \in DocNames |-> extract_title_and_summary(DocText(d))]

\* len(content) of each column
ContentLen == [d \in DocNames |-> Len(DocText(d))]

\* what the model can answer to the draft prompt (a non-empty completion)
DraftDocs == {"colA", "thin"}
\* what the model can put into revisedContent
RevisedDocs == {"colB", ""}

(***************************************************************************)
(* News items are numbered in the order the search returns them.           *)
(***************************************************************************)
ItemsUpTo(n) == [i \in 1..n |-> i]

\* news_search_service.py:260-285
convert_to_sources(news_items) ==
    [i \in 1..Len(news_items) |-> [title |-> news_items[i], uri |-> news_items[i]]]

(***************************************************************************)
(* schemas.py: the request bodies each endpoint accepts.                   *)
(***************************************************************************)
MinRevisionAttempts == 1
MaxRevisionAttempts == 5
DefaultRevisionAttempts == 3
DefaultDaysBack == 7

Topics == {"tax"}
SearchModes == {"title"}

\* schemas.py:11-61  ColumnRequest (generate-column)
GenerateRequests ==
    [kind : {"generate"}, topic : Topics,
     maxRevisionAttempts :
        {Some(n) : n \in MinRevisionAttempts..MaxRevisionAttempts} \cup {NoneInt},
     daysBack : {Some(DefaultDaysBack)},
     searchMode : SearchModes, proceed : {TRUE}]

\* schemas.py:11-61  ColumnRequest (preview-news, which never reads
\* maxRevisionAttempts)
PreviewRequests ==
    [kind : {"preview"}, topic : Topics,
     maxRevisionAttempts : {Some(DefaultRevisionAttempts)},
     daysBack : {Some(DefaultDaysBack), NoneInt},
     searchMode : SearchModes, proceed : {TRUE}]

\* schemas.py:120-127  ColumnGenerationConfirmRequest: no bound on
\* maxRevisionAttempts
ConfirmRequests ==
    [kind : {"confirm"}, topic : Topics,
     maxRevisionAttempts :
        {Some(n) : n \in {MinRevisionAttempts - 2, MinRevisionAttempts - 1,
                           MinRevisionAttempts, MaxRevisionAttempts,
                           MaxRevisionAttempts + 1}}
            \cup {NoneInt},
     daysBack : {Some(DefaultDaysBack)},
     searchMode : SearchModes, proceed : BOOLEAN]

(***************************************************************************)
(* The request slots and the cache, idle: the state after module import.   *)
(***************************************************************************)
Procs == {"p1", "p2"}

EmptyCache == [k \in {} |-> None]

NoCalls == [search |-> 0, draft |-> 0, eval |-> 0, extract |-> 0]

MainIdle ==
    /\ news_cache = EmptyCache
    /\ pc = [p \in Procs |-> "idle"]
    /\ req = [p \in Procs |-> None]
    /\ loc = [p \in Procs |-> None]
    /\ resp = [p \in Procs |-> None]
    /\ calls = [p \in Procs |-> NoCalls]
    /\ last = None

mainVars == <<news_cache, pc, req, loc, resp, calls, last>>

\* main.py:226, 303
CacheKey(r) == r.topic \o "_" \o Str(r.daysBack) \o "_" \o r.searchMode

\* news_cache[k] = v
Put(cache, k, v) == [x \in DOMAIN cache \cup {k} |-> IF x = k THEN v ELSE cache[x]]
\* del news_cache[k]
Del(cache, k) == [x \in DOMAIN cache \ {k} |-> cache[x]]

(***************************************************************************)
(* main.py: what the endpoints answer.                                     *)
(***************************************************************************)
ErrorResponse(status, error) == [status |-> status, success |-> FALSE, error |-> error]

\* generate_column answering every exception as it answers a ValueError
GenerateErrorBadRequest(exc) == ErrorResponse(400, "invalid input")

\* main.py:187-198: the except clauses of generate_column
GenerateError(exc) ==
    IF IsValueError(exc) THEN ErrorResponse(400, "invalid input")
    ELSE ErrorResponse(500, "generation failed")

\* main.py:375-382: the except clauses of generate_column_confirmed
ConfirmError(exc) ==
    IF IsCustomHTTPException(exc) THEN ErrorResponse(CustomStatus[exc.error], exc.error)
    ELSE ErrorResponse(500, "generation failed")

\* schemas.py:83-85  ArticleData
TitleMinLen == 5
TitleMaxLen == 100
SummaryMinLen == 10
SummaryMaxLen == 300
ContentMinLen == 100

\* main.py:146-147, 333-334
GuardLimit == 300
GuardKeep == 297

\* main.py:145-147, 332-334
SafeSummary(summary) ==
    IF Len(summary) > GuardLimit
    THEN RStrip(Slice(summary, GuardKeep)) \o Ellipsis
    ELSE summary

\* main.py:141, 328: len(content.replace(" ", "")) of each column
WordCount ==
    [d \in DocNames |-> Cardinality({i \in 1..Len(DocText(d)) : DocText(d)[i] # " "})]

ArticleDataValidNoTitleCheck(title, summary, content) ==
    /\ Len(summary) >= SummaryMinLen /\ Len(summary) <= SummaryMaxLen
    /\ ContentLen[content] >= ContentMinLen

\* schemas.py:80-86  ArticleData(...) passes validation
ArticleDataValid(title, summary, content) ==
    /\ Len(title) >= TitleMinLen /\ Len(title) <= TitleMaxLen
    /\ Len(summary) >= SummaryMinLen /\ Len(summary) <= SummaryMaxLen
    /\ ContentLen[content] >= ContentMinLen

\* main.py:140-182, 327-370: the response built from the service's result;
\* onInvalid is the answer the handler's except clauses give a pydantic
\* ValidationError
ColumnResponse(article_content, category, onInvalid) ==
    LET safe_summary == SafeSummary(article_content.summary)
    IN  IF ArticleDataValid(article_content.title, safe_summary, article_content.content)
        THEN [status  |-> 200,
              success |-> TRUE,
              article |-> [title     |-> article_content.title,
                           summary   |-> safe_summary,
                           content   |-> article_content.content,
                           wordCount |-> WordCount[article_content.content],
                           category  |-> category,
                           sources   |-> article_content.sources]]
        ELSE onInvalid

\* main.py:129-198: a ValidationError is a ValueError, answered 400
GenerateColumnResponse(article_content) ==
    ColumnResponse(article_content, "politics",
                   GenerateError([ok |-> FALSE, error |-> "ValidationError"]))

\* main.py:327-382: any exception but CustomHTTPException is answered 500
ConfirmedResponse(article_content) ==
    ColumnResponse(article_content, "political column",
                   ConfirmError([ok |-> FALSE, error |-> "ValidationError"]))

\* main.py:236-247
ExcellentFrom == 10
GoodFrom == 5
FairFrom == 2
PreviewMax == 5

SearchQualityStrict(news_count) ==
    IF news_count > ExcellentFrom THEN "excellent"
    ELSE IF news_count > GoodFrom THEN "good"
    ELSE IF news_count > FairFrom THEN "fair"
    ELSE "poor"

SearchQuality(news_count) ==
    IF news_count >= ExcellentFrom THEN "excellent"
    ELSE IF news_count >= GoodFrom THEN "good"
    ELSE IF news_count >= FairFrom THEN "fair"
    ELSE "poor"

\* main.py:234-269: NewsPreviewResponse needs an int searchPeriod
PreviewResponse(column_request, news_data) ==
    LET preview_news == Slice(news_data, PreviewMax)
    IN  IF column_request.daysBack = NoneInt
        THEN ErrorResponse(500, "ValidationError")
        ELSE [status         |-> 200,
              success        |-> TRUE,
              topic          |-> column_request.topic,
              searchPeriod   |-> column_request.daysBack,
              newsCount      |-> Len(preview_news),
              newsItems      |-> preview_news,
              totalAvailable |-> Len(news_data),
              searchQuality  |-> SearchQuality(Len(news_data))]

(***************************************************************************)
(* The answers of the collaborators.                                       *)
(***************************************************************************)
MainNews == 2
MaxNews == 12

\* the item lists a search returns in the pipeline runs
NewsLists == {ItemsUpTo(n) : n \in 1..MainNews}
\* the item lists a search returns in the preview runs
PreviewLists == {ItemsUpTo(n) : n \in 0..MaxNews}

\* what the news provider does with the request of search_recent_news
ProviderFailures == {"non-200", "timeout", "error"}

\* news_search_service.py:80-98: the provider answers 200 and
\* _process_news_items keeps `items`, or the call fails; with daysBack None
\* timedelta(days=None) fails inside _process_news_items
ProviderOutcomes(r, lists) ==
    {[kind |-> f, items |-> <<>>] : f \in ProviderFailures}
        \cup IF r.daysBack = NoneInt THEN {}
             ELSE {[kind |-> "items", items |-> l] : l \in lists \cup {<<>>}}

\* news_search_service.py:44-105
search_recent_news(outcome) ==
    IF outcome.kind = "items"
    THEN [ok |-> TRUE, news_items |-> outcome.items]
    ELSE NewsSearchException

\* _search_latest_news letting the failure of the search through
_search_latest_news_raising(outcome) ==
    LET found == search_recent_news(outcome)
    IN  IF found.ok
        THEN [ok |-> TRUE, news_data |-> found.news_items,
              sources |-> convert_to_sources(found.news_items)]
        ELSE found

\* gemini_service.py:133-175: every failure of search_recent_news gives
\* ([], [])
_search_latest_news(outcome) ==
    LET found == search_recent_news(outcome)
    IN  IF found.ok
        THEN [ok |-> TRUE, news_data |-> found.news_items,
              sources |-> convert_to_sources(found.news_items)]
        ELSE [ok |-> TRUE, news_data |-> <<>>, sources |-> <<>>]

AllScores(v) == [d \in Dims |-> v]

\* the JSON objects the evaluation model answers with in the pipeline
EvaluationObjects ==
    LET scored == { WithKey(WithKey(EmptyObject, "feedback", "fix it"), "scores", sc) :
                        sc \in {AllScores(90), AllScores(70)} }
        revised == scored \cup { WithKey(d, "revisedContent", c) : d \in scored, c \in RevisedDocs }
    IN  { WithKey(d, "pass", f) : d \in revised, f \in {"True", "False"} }

\* an empty completion, text that is no JSON, a failed API call, or a JSON
\* object
EvaluationAnswers ==
    {[kind |-> "empty"], [kind |-> "not json"], [kind |-> "api error"]}
        \cup {[kind |-> "json", data |-> d] : d \in EvaluationObjects}

\* content_evaluation_service.py:38-91
LenientResult ==
    [ok |-> TRUE, scores |-> [d \in Dims |-> 0], pass_ |-> FALSE,
     feedback |-> "done", revisedContent |-> ""]

\* evaluate_and_revise answering a failed evaluation where it should raise
evaluate_and_revise_lenient(answer) ==
    IF answer.kind = "json"
    THEN LET r == _parse_evaluation_result(answer.data)
         IN  IF r.ok THEN r ELSE LenientResult
    ELSE LenientResult

\* content_evaluation_service.py:38-91
evaluate_and_revise(answer) ==
    IF answer.kind = "json" THEN _parse_evaluation_result(answer.data)
    ELSE ContentGenerationException

(***************************************************************************)
(* The handlers.  A handler runs atomically from one await to the next;    *)
(* pc names the call it is waiting for.                                    *)
(***************************************************************************)
LocInit ==
    [news_data |-> <<>>, sources |-> <<>>, hit |-> FALSE,
     current_content |-> "", attempt |-> 0, lastEval |-> None, all90 |-> TRUE,
     searched |-> "none"]

Set(f, p, v) == [f EXCEPT ![p] = v]

\* the handler of slot p answers r
Respond(p, r) ==
    /\ pc' = Set(pc, p, "done")
    /\ resp' = Set(resp, p, r)

\* main.py:187-198, 375-382: the service raised exc to the endpoint `kind`
EndpointError(kind, exc) ==
    IF kind = "generate" THEN GenerateError(exc) ELSE ConfirmError(exc)

\* the service raised ContentGenerationException
ServiceFailed(p, kind) == Respond(p, EndpointError(kind, ContentGenerationException))

\* GeneratedContent built over the sources of the current draft: none
GeneratedContentUnsourced(title, summary, content, sources) ==
    [title |-> title, summary |-> summary, content |-> content, sources |-> <<>>]

\* gemini_service.py:117-122, 267-272
GeneratedContent(title, summary, content, sources) ==
    [title |-> title, summary |-> summary, content |-> content, sources |-> sources]

\* gemini_service.py:114-125, 264-275 and the rest of the endpoint: title
\* and summary are extracted (no await), the cache entry used is deleted
\* and the response is built
ReturnColumn(p, content, sources) ==
    LET ts == TitleAndSummaryOf[content]
        article_content == GeneratedContent(ts.title, ts.summary, content, sources)
        cache_key == CacheKey(req[p])
    IN  /\ calls' = Set(calls, p, [calls[p] EXCEPT !.extract = @ + 1])
        /\ IF req[p].kind = "generate"
           THEN /\ Respond(p, GenerateColumnResponse(article_content))
                /\ UNCHANGED news_cache
           ELSE IF ~loc[p].hit
           THEN /\ Respond(p, ConfirmedResponse(article_content))
                /\ UNCHANGED news_cache
           ELSE IF cache_key \in DOMAIN news_cache
           THEN /\ Respond(p, ConfirmedResponse(article_content))
                /\ news_cache' = Del(news_cache, cache_key)
           ELSE /\ Respond(p, ErrorResponse(500, "KeyError"))
                /\ UNCHANGED news_cache

\* gemini_service.py:99-102, 249-252: the head of the for loop, with
\* `done` evaluations behind it
LoopHead(p, l, done) ==
    LET m == req[p].maxRevisionAttempts
    IN  IF m = NoneInt
        THEN \* range(None) raises TypeError
             /\ ServiceFailed(p, req[p].kind)
             /\ loc' = Set(loc, p, l)
             /\ UNCHANGED <<news_cache, calls>>
        ELSE IF done < m[1]
        THEN /\ pc' = Set(pc, p, "evaluate")
             /\ loc' = Set(loc, p, l)
             /\ calls' = Set(calls, p, [calls[p] EXCEPT !.eval = @ + 1])
             /\ UNCHANGED <<news_cache, resp>>
        ELSE /\ loc' = Set(loc, p, l)
             /\ ReturnColumn(p, l.current_content, l.sources)

\* DraftOrFail drafting over whatever the search found
DraftOrFailUnchecked(p, l) ==
    /\ pc' = Set(pc, p, "draft")
    /\ loc' = Set(loc, p, l)
    /\ calls' = Set(calls, p, [calls[p] EXCEPT !.draft = @ + 1])
    /\ UNCHANGED <<resp, news_cache>>

\* DraftOrFail storing the news it searched in the cache
DraftOrFailCaching(p, l) ==
    IF l.news_data = <<>>
    THEN /\ ServiceFailed(p, req[p].kind)
         /\ loc' = Set(loc, p, l)
         /\ UNCHANGED <<calls, news_cache>>
    ELSE /\ pc' = Set(pc, p, "draft")
         /\ loc' = Set(loc, p, l)
         /\ calls' = Set(calls, p, [calls[p] EXCEPT !.draft = @ + 1])
         /\ news_cache' = Put(news_cache, CacheKey(req[p]),
                              [news_data |-> l.news_data, sources |-> l.sources])
         /\ UNCHANGED resp

\* gemini_service.py:83-93: after the search of generate_column, the draft
\* call is made, or the pipeline fails for want of news
DraftOrFail(p, l) ==
    IF l.news_data = <<>>
    THEN /\ ServiceFailed(p, req[p].kind)
         /\ loc' = Set(loc, p, l)
         /\ UNCHANGED <<calls, news_cache>>
    ELSE /\ pc' = Set(pc, p, "draft")
         /\ loc' = Set(loc, p, l)
         /\ calls' = Set(calls, p, [calls[p] EXCEPT !.draft = @ + 1])
         /\ UNCHANGED <<resp, news_cache>>

CancelledNever(r) == FALSE

\* main.py:293
Cancelled(r) == ~r.proceed

\* main.py:116-138 / 204-223: the request of an endpoint taking a
\* ColumnRequest is accepted and the news search is called
StartColumnRequest(p, r) ==
    /\ pc[p] = "idle"
    /\ req' = Set(req, p, r)
    /\ loc' = Set(loc, p, LocInit)
    /\ pc' = Set(pc, p, "search")
    /\ calls' = Set(calls, p, [NoCalls EXCEPT !.search = 1])
    /\ UNCHANGED <<news_cache, resp, last, fnIn, fnOut>>

StartGenerate(p) == \E r \in GenerateRequests : StartColumnRequest(p, r)

StartPreview(p) == \E r \in PreviewRequests : StartColumnRequest(p, r)

\* main.py:281-325: the confirm handler, called with request r, up to its
\* first await
StartConfirmRequest(p, r) ==
    /\ pc[p] = "idle"
    /\ req' = Set(req, p, r)
    /\ UNCHANGED <<news_cache, last, fnIn, fnOut>>
    /\ IF Cancelled(r)
       THEN /\ Respond(p, ErrorResponse(400, "cancelled"))
            /\ loc' = Set(loc, p, LocInit)
            /\ calls' = Set(calls, p, NoCalls)
       ELSE IF CacheKey(r) \in DOMAIN news_cache
       THEN LET cached_data == news_cache[CacheKey(r)]
                l == [LocInit EXCEPT !.hit = TRUE,
                                     !.news_data = cached_data.news_data,
                                     !.sources = cached_data.sources]
            IN  IF l.news_data = <<>>
                THEN /\ ServiceFailed(p, r.kind)
                     /\ loc' = Set(loc, p, l)
                     /\ calls' = Set(calls, p, NoCalls)
                ELSE /\ pc' = Set(pc, p, "draft")
                     /\ loc' = Set(loc, p, l)
                     /\ calls' = Set(calls, p, [NoCalls EXCEPT !.draft = 1])
                     /\ UNCHANGED resp
       ELSE /\ pc' = Set(pc, p, "search")
            /\ loc' = Set(loc, p, LocInit)
            /\ calls' = Set(calls, p, [NoCalls EXCEPT !.search = 1])
            /\ UNCHANGED resp

StartConfirm(p) == \E r \in ConfirmRequests : StartConfirmRequest(p, r)

\* gemini_service.py:80-93 and main.py:219-269: _search_latest_news returns
SearchReturns(p, lists) ==
    /\ pc[p] = "search"
    /\ \E outcome \in ProviderOutcomes(req[p], lists) :
        LET found == _search_latest_news(outcome)
        IN  IF ~found.ok
            THEN \* gemini_service.py:127-128, main.py:271-276
                 /\ Respond(p, IF req[p].kind = "preview"
                                THEN ErrorResponse(500, found.error)
                                ELSE EndpointError(req[p].kind, found))
                 /\ loc' = Set(loc, p, [loc[p] EXCEPT !.searched = outcome.kind])
                 /\ UNCHANGED <<calls, news_cache>>
            ELSE LET l == [loc[p] EXCEPT !.news_data = found.news_data,
                                         !.sources = found.sources,
                                         !.searched = outcome.kind]
                 IN  IF req[p].kind = "preview"
                     THEN /\ news_cache' = Put(news_cache, CacheKey(req[p]),
                                               [news_data |-> found.news_data,
                                                sources |-> found.sources])
                          /\ Respond(p, PreviewResponse(req[p], found.news_data))
                          /\ loc' = Set(loc, p, l)
                          /\ UNCHANGED calls
                     ELSE DraftOrFail(p, l)
    /\ UNCHANGED <<req, last, fnIn, fnOut>>

\* DraftFails throwing the entry of the request's key away
DraftFailsEvicting(p) ==
    /\ pc[p] = "draft"
    /\ ServiceFailed(p, req[p].kind)
    /\ news_cache' = Del(news_cache, CacheKey(req[p]))
    /\ UNCHANGED <<req, loc, calls, last, fnIn, fnOut>>

\* content_generation_service.py:37-93: the draft call fails
DraftFails(p) ==
    /\ pc[p] = "draft"
    /\ ServiceFailed(p, req[p].kind)
    /\ UNCHANGED <<news_cache, req, loc, calls, last, fnIn, fnOut>>

\* gemini_service.py:86-99, 244-249: the draft call returns a column
DraftReturns(p) ==
    /\ pc[p] = "draft"
    /\ \E d \in DraftDocs : LoopHead(p, [loc[p] EXCEPT !.current_content = d], 0)
    /\ UNCHANGED <<req, last, fnIn, fnOut>>

\* the loop going on with the draft it had
NextContentKept(current_content, evaluation) == current_content

\* gemini_service.py:111, 261
NextContent(current_content, evaluation) == evaluation.revisedContent

\* the loop leaving with the revision of the evaluation that passed
PassedContentRevised(current_content, evaluation) == evaluation.revisedContent

\* gemini_service.py:107-109, 257-259: break leaves current_content as the
\* evaluation was given it
PassedContent(current_content, evaluation) == current_content

\* gemini_service.py:102-112, 252-262: evaluate_and_revise returns or raises
EvaluationReturns(p) ==
    /\ pc[p] = "evaluate"
    /\ \E answer \in EvaluationAnswers :
        LET evaluation == evaluate_and_revise(answer)
            seen == [input |-> loc[p].current_content, answer |-> answer.kind,
                     result |-> evaluation]
        IN  IF ~evaluation.ok
            THEN /\ ServiceFailed(p, req[p].kind)
                 /\ loc' = Set(loc, p, [loc[p] EXCEPT !.lastEval = seen])
                 /\ UNCHANGED <<news_cache, calls>>
            ELSE LET l == [loc[p] EXCEPT
                             !.lastEval = seen,
                             !.all90 = @ /\ evaluation.scores = AllScores(90),
                             !.attempt = @ + 1]
                 IN  IF evaluation.pass_
                     THEN LET content == PassedContent(l.current_content, evaluation)
                          IN  /\ loc' = Set(loc, p, [l EXCEPT !.current_content = content])
                              /\ ReturnColumn(p, content, l.sources)
                     ELSE LoopHead(p, [l EXCEPT !.current_content =
                                                    NextContent(@, evaluation)],
                                   l.attempt)
    /\ UNCHANGED <<req, last, fnIn, fnOut>>

\* the response is sent and the slot is free again
Finish(p) ==
    /\ pc[p] = "done"
    /\ last' = [kind |-> req[p].kind, key |-> CacheKey(req[p]),
                searches |-> calls[p].search]
    /\ pc' = Set(pc, p, "idle")
    /\ req' = Set(req, p, None)
    /\ loc' = Set(loc, p, None)
    /\ resp' = Set(resp, p, None)
    /\ calls' = Set(calls, p, NoCalls)
    /\ UNCHANGED <<news_cache, fnIn, fnOut>>

InitMain ==
    /\ MainIdle
    /\ fnIn = None
    /\ fnOut = None

\* one request at a time
Sequential == {"p1"}

Next ==
    \E p \in Sequential :
        \/ StartGenerate(p)
        \/ StartPreview(p)
        \/ StartConfirm(p)
        \/ SearchReturns(p, NewsLists)
        \/ DraftFails(p)
        \/ DraftReturns(p)
        \/ EvaluationReturns(p)
        \/ Finish(p)

Spec == InitMain /\ [][Next]_vars

\* the request in slot p runs the column pipeline of GeminiService
InPipeline(p) ==
    /\ pc[p] # "idle"
    /\ req[p].kind \in {"generate", "confirm"}
    /\ req[p].kind = "confirm" => req[p].proceed

\* the news search of the request in slot p, fresh or cached, is behind it
NewsKnown(p) == InPipeline(p) /\ (pc[p] # "search" \/ loc[p].hit)

\* C1: when the news of a column request has zero items, the pipeline fails
\* with the content generation error (status 500): the draft generator and the
\* evaluator are never invoked and no article is returned.
C1_NoNewsNoColumn ==
    \A p \in Procs :
        (NewsKnown(p) /\ loc[p].news_data = <<>>) =>
            /\ pc[p] = "done"
            /\ resp[p].status = 500
            /\ ~resp[p].success
            /\ req[p].kind = "confirm" => resp[p].error = "ContentGenerationException"
            /\ calls[p].draft = 0
            /\ calls[p].eval = 0
            /\ calls[p].extract = 0

\* a generate request whose fresh search found nothing has been answered
C1_Witness ==
    \E p \in Procs :
        /\ pc[p] = "done"
        /\ req[p].kind = "generate"
        /\ calls[p].search = 1
        /\ loc[p].news_data = <<>>
        /\ resp[p].status = 500

\* the pipeline of slot p returned an article to its endpoint
Returned_Column(p) == InPipeline(p) /\ pc[p] = "done" /\ calls[p].extract = 1

\* the last evaluation of slot p, if any, did not pass
NonePassed(p) == loc[p].lastEval = None \/ ~loc[p].lastEval.result.pass_

\* C3: the evaluator is invoked at most maxRevisionAttempts times in one
\* pipeline run; when every evaluation fails it is invoked exactly
\* maxRevisionAttempts times, the returned content is the revisedContent of the
\* last evaluation, and the pipeline returns a normal result.
C3_AtMostMaxEvaluations ==
    \A p \in Procs :
        (InPipeline(p) /\ req[p].maxRevisionAttempts # NoneInt) =>
            LET m == req[p].maxRevisionAttempts[1]
            IN  /\ calls[p].eval <= m
                /\ (Returned_Column(p) /\ NonePassed(p)) =>
                        /\ calls[p].eval = m
                        /\ loc[p].lastEval # None
                        /\ loc[p].current_content = loc[p].lastEval.result.revisedContent

\* C4: when every evaluation of a run reports all five scores as 90, the loop
\* exits after exactly one evaluation, for every maxRevisionAttempts in 1..5.
C4_OneEvaluationWhenAll90 ==
    \A p \in Procs :
        ( /\ InPipeline(p)
          /\ req[p].maxRevisionAttempts \in {Some(n) : n \in MinRevisionAttempts..MaxRevisionAttempts}
          /\ loc[p].all90 ) =>
            /\ calls[p].eval <= 1
            /\ Returned_Column(p) => calls[p].eval = 1

\* C5: a preview followed by a confirm with proceed=true on the same key does
\* one news search in total, and when the confirm has finished the cache holds
\* no entry for that key.
C5_PreviewThenConfirm ==
    \A p \in Procs :
        ( /\ pc[p] = "done"
          /\ req[p].kind = "confirm"
          /\ req[p].proceed
          /\ last # None
          /\ last.kind = "preview"
          /\ last.key = CacheKey(req[p]) ) =>
            /\ last.searches + calls[p].search = 1
            /\ CacheKey(req[p]) \notin DOMAIN news_cache

\* C6: a confirm request with proceed=false is answered 400 with the
\* cancellation message in the step that accepts it: no news search, no model
\* call, and news_cache is left as it was.
C6_CancelledConfirm ==
    [][ \A p \in Procs :
          (pc[p] = "idle" /\ pc'[p] # "idle" /\ req'[p].kind = "confirm" /\ ~req'[p].proceed) =>
              /\ pc'[p] = "done"
              /\ resp'[p] = ErrorResponse(400, "cancelled")
              /\ calls'[p] = NoCalls
              /\ news_cache' = news_cache ]_vars

\* a cancelled confirm has been answered while the cache holds its key
C6_Witness ==
    \E p \in Procs :
        /\ pc[p] = "done"
        /\ req[p].kind = "confirm"
        /\ ~req[p].proceed
        /\ resp[p].status = 400
        /\ CacheKey(req[p]) \in DOMAIN news_cache

\* slot p holds a confirm with proceed=true that found no cache entry
ConfirmMiss(p) ==
    /\ pc[p] # "idle"
    /\ req[p].kind = "confirm"
    /\ req[p].proceed
    /\ ~loc[p].hit

\* C7: a confirm with proceed=true whose key is not in the cache runs the full
\* pipeline with exactly one fresh news search (an article is returned only
\* after a draft over the searched news), and no step of it changes news_cache.
C7_ConfirmMiss ==
    [][ \A p \in Procs :
          /\ ( /\ pc[p] = "idle" /\ pc'[p] # "idle"
               /\ req'[p].kind = "confirm" /\ req'[p].proceed
               /\ CacheKey(req'[p]) \notin DOMAIN news_cache ) =>
                    /\ pc'[p] = "search"
                    /\ ~loc'[p].hit
          /\ ConfirmMiss(p)' =>
                    /\ calls'[p].search = 1
                    /\ news_cache' = news_cache
                    /\ (pc'[p] = "done" /\ resp'[p].status = 200) =>
                            /\ calls'[p].draft = 1
                            /\ calls'[p].extract = 1
                            /\ loc'[p].news_data # <<>> ]_vars

\* a confirm that missed the cache has been answered with an article
C7_Witness ==
    \E p \in Procs :
        /\ ConfirmMiss(p)
        /\ pc[p] = "done"
        /\ resp[p].status = 200
        /\ calls[p].search = 1
        /\ CacheKey(req[p]) \notin DOMAIN news_cache

\* C11: the sources of a returned article are the sources the search step
\* produced, or those of the cache entry the confirm read: no step of the
\* draft or of the evaluate/revise loop changes them.
C11_SourcesCarried ==
    [][ \A p \in Procs :
          /\ ( /\ pc[p] = "idle" /\ pc'[p] # "idle"
               /\ req'[p].kind = "confirm" /\ req'[p].proceed
               /\ CacheKey(req'[p]) \in DOMAIN news_cache ) =>
                    loc'[p].sources = news_cache[CacheKey(req'[p])].sources
          /\ (pc[p] \in {"draft", "evaluate"} /\ pc'[p] # "idle") =>
                    /\ loc'[p].sources = loc[p].sources
                    /\ (pc'[p] = "done" /\ resp'[p].status = 200) =>
                            resp'[p].article.sources = loc[p].sources ]_vars

\* an article was returned with its sources after two or more evaluations
C11_Witness ==
    \E p \in Procs :
        /\ pc[p] = "done"
        /\ resp[p].status = 200
        /\ "article" \in DOMAIN resp[p]
        /\ calls[p].eval >= 2
        /\ resp[p].article.sources # <<>>
        /\ resp[p].article.sources = loc[p].sources

\* the evaluator call of slot p last answered with something it raises on
EvaluatorRaised(p) ==
    /\ InPipeline(p)
    /\ loc[p].lastEval # None
    /\ \/ loc[p].lastEval.answer \in {"empty", "not json", "api error"}
       \/ ~loc[p].lastEval.result.ok

\* C13: an error raised by the evaluator in any iteration of the loop aborts
\* the whole generation with the content generation error: the request is
\* answered 500 without an article, no later evaluation and no title/summary
\* extraction runs, whatever the earlier iterations produced.
C13_EvaluatorErrorAborts ==
    \A p \in Procs :
        EvaluatorRaised(p) =>
            /\ pc[p] = "done"
            /\ resp[p].status = 500
            /\ ~resp[p].success
            /\ "article" \notin DOMAIN resp[p]
            /\ req[p].kind = "confirm" => resp[p].error = "ContentGenerationException"
            /\ calls[p].extract = 0
            /\ calls[p].eval = loc[p].attempt + 1

\* the evaluator failed in the second iteration or later, after a revision
C13_Witness ==
    \E p \in Procs :
        /\ EvaluatorRaised(p)
        /\ calls[p].eval >= 2
        /\ loc[p].current_content \in RevisedDocs
        /\ pc[p] = "done"
        /\ resp[p].status = 500

\* the search of slot p is behind it and the provider failed
ProviderFailed(p) ==
    /\ pc[p] \notin {"idle", "search"}
    /\ loc[p].searched \in {"non-200", "timeout", "error"}

\* C14: a provider failure during the news search never leaves the search
\* step: the step returns no news and no sources, so a preview answers with
\* success and tier "poor", and a column request fails with the zero-news
\* content generation error without a draft call.
C14_ProviderFailureIsNoNews ==
    \A p \in Procs :
        ProviderFailed(p) =>
            /\ loc[p].news_data = <<>>
            /\ loc[p].sources = <<>>
            /\ pc[p] = "done"
            /\ resp[p].status # 503
            /\ req[p].kind = "preview" =>
                    /\ resp[p].status = 200
                    /\ resp[p].success
                    /\ resp[p].searchQuality = "poor"
                    /\ resp[p].totalAvailable = 0
            /\ req[p].kind \in {"generate", "confirm"} =>
                    /\ resp[p].status = 500
                    /\ ~resp[p].success
                    /\ calls[p].draft = 0

(***************************************************************************)
(* SpecLegacy: generate_draft_ts_style, the single-shot path without       *)
(* evaluation (gemini_service.py:177-212), one call at a time.  resp holds *)
(* what the call returns or raises.                                        *)
(***************************************************************************)
LegacyTopics == {"tax", "vote"}

LegacyCalls ==
    [kind : {"legacy"}, topic : LegacyTopics,
     maxRevisionAttempts : {Some(DefaultRevisionAttempts)},
     daysBack : {Some(DefaultDaysBack)},
     searchMode : {"title"}, proceed : {TRUE}]

\* gemini_service.py:189-191: the call up to its search
StartLegacy(p) == \E r \in LegacyCalls : StartColumnRequest(p, r)

HasNewsAlways(news_data) == TRUE

\* gemini_service.py:193
HasNews(news_data) == news_data # <<>>

\* gemini_service.py:191-201, 205-212: the search returns; without news the
\* exception raised is caught and raised again as ContentGenerationException
LegacySearchReturns(p) ==
    /\ pc[p] = "search"
    /\ req[p].kind = "legacy"
    /\ \E outcome \in ProviderOutcomes(req[p], PreviewLists) :
        LET found == _search_latest_news(outcome)
            l == [loc[p] EXCEPT !.news_data = found.news_data,
                                !.sources = found.sources,
                                !.searched = outcome.kind]
        IN  /\ loc' = Set(loc, p, l)
            /\ IF HasNews(found.news_data)
               THEN /\ pc' = Set(pc, p, "draft")
                    /\ calls' = Set(calls, p, [calls[p] EXCEPT !.draft = @ + 1])
                    /\ UNCHANGED resp
               ELSE /\ Respond(p, ContentGenerationException)
                    /\ UNCHANGED calls
    /\ UNCHANGED <<news_cache, req, last, fnIn, fnOut>>

\* gemini_service.py:194, 205-212: generate_column_from_news raises
LegacyDraftFails(p) ==
    /\ pc[p] = "draft"
    /\ req[p].kind = "legacy"
    /\ Respond(p, ContentGenerationException)
    /\ UNCHANGED <<news_cache, req, loc, calls, last, fnIn, fnOut>>

\* gemini_service.py:194, 202-203: the draft is returned with the sources
LegacyDraftReturns(p) ==
    /\ pc[p] = "draft"
    /\ req[p].kind = "legacy"
    /\ \E d \in DraftDocs :
        /\ loc' = Set(loc, p, [loc[p] EXCEPT !.current_content = d])
        /\ Respond(p, [ok |-> TRUE, content |-> d, sources |-> loc[p].sources])
    /\ UNCHANGED <<news_cache, req, calls, last, fnIn, fnOut>>

NextLegacy ==
    \E p \in Sequential :
        \/ StartLegacy(p)
        \/ LegacySearchReturns(p)
        \/ LegacyDraftFails(p)
        \/ LegacyDraftReturns(p)
        \/ Finish(p)

SpecLegacy == InitMain /\ [][NextLegacy]_vars

\* the legacy call in slot p has its search behind it and found no news
LegacyWithoutNews(p) ==
    /\ pc[p] \notin {"idle", "search"}
    /\ req[p].kind = "legacy"
    /\ loc[p].news_data = <<>>

\* C12 as stated: in the legacy single-shot path zero search results or a
\* search failure do not abort generation, and the call returns an article
\* with empty sources.
C12_LegacyReturnsUnsourced ==
    \A p \in Procs :
        (LegacyWithoutNews(p) /\ pc[p] = "done") =>
            /\ resp[p].ok
            /\ resp[p].sources = <<>>

\* C12 amended: in the legacy single-shot path zero search results or a
\* search failure abort the call with ContentGenerationException before any
\* draft call is made, and no article is returned.
C12_LegacyFailsWithoutNews ==
    \A p \in Procs :
        LegacyWithoutNews(p) =>
            /\ pc[p] = "done"
            /\ resp[p] = ContentGenerationException
            /\ calls[p].draft = 0

\* a legacy call whose search failed at the provider has raised
C12_Witness ==
    \E p \in Procs :
        /\ LegacyWithoutNews(p)
        /\ loc[p].searched \in ProviderFailures
        /\ pc[p] = "done"
        /\ ~resp[p].ok

\* the service called by generate-column raised before returning a column
GenerateServiceRaised(p) ==
    /\ pc[p] = "done"
    /\ req[p].kind = "generate"
    /\ calls[p].extract = 0

\* C17: when the generation service raises during a generate-column request
\* the endpoint answers 500 with success=false and an error message, never a
\* success response and never an article.
C17_ServiceErrorIs500 ==
    \A p \in Procs :
        GenerateServiceRaised(p) =>
            /\ resp[p].status = 500
            /\ resp[p].success = FALSE
            /\ "error" \in DOMAIN resp[p]
            /\ resp[p].error # ""
            /\ "article" \notin DOMAIN resp[p]

\* an evaluation of a generate-column request raised after a draft was
\* written, and the request was answered 500
C17_Witness ==
    \E p \in Procs :
        /\ GenerateServiceRaised(p)
        /\ calls[p].draft = 1
        /\ calls[p].eval >= 2
        /\ ~loc[p].lastEval.result.ok
        /\ loc[p].current_content # ""
        /\ resp[p].status = 500

\* C16: every request accepted by generate-column or
\* generate-column-confirmed carries a maxRevisionAttempts in 1..5 that bounds
\* its evaluations; no run returns a column after zero evaluations and none
\* does more than five.
C16_RevisionAttemptsBounded ==
    \A p \in Procs :
        InPipeline(p) =>
            /\ req[p].maxRevisionAttempts \in {Some(n) : n \in 1..5}
            /\ calls[p].eval <= req[p].maxRevisionAttempts[1]
            /\ calls[p].eval <= 5
            /\ Returned_Column(p) => calls[p].eval >= 1

\* the calls slot p started in this step
Started(p, call) == calls'[p][call] - calls[p][call]

\* C19: within one pipeline run the calls happen in the order search, one
\* draft, the evaluations one at a time, one title/summary extraction; a call
\* starts only when the one before it has returned, and every evaluation
\* after the first receives the revisedContent of the evaluation before it.
C19_SequentialCalls ==
    [][ \A p \in Procs :
          (pc'[p] # "idle" /\ req'[p].kind \in {"generate", "confirm"}) =>
              /\ \A call \in DOMAIN NoCalls : Started(p, call) \in {0, 1}
              /\ Started(p, "search") + Started(p, "draft")
                    + Started(p, "eval") + Started(p, "extract") <= 1
              /\ Started(p, "search") = 1 =>
                    /\ pc[p] = "idle" /\ pc'[p] = "search"
                    /\ calls'[p] = [NoCalls EXCEPT !.search = 1]
              /\ Started(p, "draft") = 1 =>
                    /\ pc'[p] = "draft"
                    /\ calls[p].draft = 0 /\ calls[p].eval = 0 /\ calls[p].extract = 0
                    /\ req'[p].kind = "generate" =>
                            pc[p] = "search" /\ calls[p].search = 1
              /\ Started(p, "eval") = 1 =>
                    /\ pc[p] \in {"draft", "evaluate"} /\ pc'[p] = "evaluate"
                    /\ calls[p].draft = 1 /\ calls[p].extract = 0
                    /\ pc[p] = "draft" <=> calls[p].eval = 0
                    /\ calls[p].eval >= 1 =>
                            /\ loc'[p].lastEval.input = loc[p].current_content
                            /\ loc'[p].current_content =
                                    loc'[p].lastEval.result.revisedContent
              /\ Started(p, "extract") = 1 =>
                    /\ pc[p] \in {"draft", "evaluate"} /\ pc'[p] = "done"
                    /\ calls[p].draft = 1 /\ calls[p].extract = 0 ]_vars

\* a second evaluation is under way on the revision the first one returned,
\* which is not the draft the first one was given
C19_Witness ==
    \E p \in Procs :
        /\ pc[p] = "evaluate"
        /\ req[p].kind = "generate"
        /\ calls[p] = [search |-> 1, draft |-> 1, eval |-> 2, extract |-> 0]
        /\ loc[p].current_content = loc[p].lastEval.result.revisedContent
        /\ loc[p].current_content # loc[p].lastEval.input

(***************************************************************************)
(* SpecValidate: the body of a generate-column or preview-news request is  *)
(* validated as a ColumnRequest before the handler runs.  A body is a JSON *)
(* object; its topic is a text, one element per character, with stand-ins  *)
(* for the Hangul syllables of the forbidden keywords.                     *)
(***************************************************************************)
TopicMinLen == 2
TopicMaxLen == 200
MinDaysBack == 1
MaxDaysBack == 30

\* JSON null in a string field
Null == "<null>"

\* schemas.py:48
ForbiddenKeywords ==
    { <<"yok", "seol">>, <<"hyeom", "o">>, <<"bi", "bang">>,
      <<"gae", "in", "jeong", "bo">> }

\* str.lower() over the letters the topics are written in
Lower(s) ==
    [i \in 1..Len(s) |-> CASE s[i] = "T" -> "t" [] s[i] = "A" -> "a" [] OTHER -> s[i]]

TopicValidUnfiltered(v) ==
    /\ Len(v) >= TopicMinLen
    /\ Len(v) <= TopicMaxLen
    /\ Strip(v) # <<>>

\* schemas.py:14-20, 41-54: the length bounds, then validate_topic
TopicValid(v) ==
    /\ Len(v) >= TopicMinLen
    /\ Len(v) <= TopicMaxLen
    /\ Strip(v) # <<>>
    /\ \A keyword \in ForbiddenKeywords : ~Contains(Lower(v), keyword)

\* schemas.py:21-34: Optional[int] with ge and le; null passes
OptionalIntValid(v, ge, le) == v = NoneInt \/ (v[1] >= ge /\ v[1] <= le)

\* schemas.py:56-61: validate_search_mode, which also sees an explicit null
SearchModeValid(v) == v \in {"title", "all"}

\* schemas.py:11-61: ColumnRequest built from a body; a field the body lacks
\* takes its default, which no validator sees
ValidateColumnRequest(body) ==
    LET maxRevisionAttempts == Get(body, "maxRevisionAttempts", Some(DefaultRevisionAttempts))
        daysBack            == Get(body, "daysBack", Some(DefaultDaysBack))
        searchMode          == Get(body, "searchMode", "title")
    IN  IF /\ "topic" \in DOMAIN body
           /\ TopicValid(body.topic)
           /\ OptionalIntValid(maxRevisionAttempts, MinRevisionAttempts, MaxRevisionAttempts)
           /\ OptionalIntValid(daysBack, MinDaysBack, MaxDaysBack)
           /\ SearchModeValid(searchMode)
        THEN [ok |-> TRUE,
              value |-> [topic |-> Strip(body.topic),
                         maxRevisionAttempts |-> maxRevisionAttempts,
                         daysBack |-> daysBack,
                         searchMode |-> searchMode]]
        ELSE [ok |-> FALSE, error |-> "RequestValidationError"]

MaxOutside == 1

BodyTopics ==
    { <<>>, <<"a">>, <<"a", "b">>, <<" ", " ">>, <<" ", "a", " ">>, <<"T", "a", "x">>,
      Rep("a", TopicMaxLen), Rep("a", TopicMaxLen + MaxOutside),
      <<"a", " ", "yok", "seol">>, <<"gae", "in", "jeong", "bo">>, <<"gae", "in">> }

BodyInts(ge, le) ==
    {NoneInt} \cup {Some(n) : n \in ((ge - MaxOutside)..ge) \cup (le..(le + MaxOutside))}

\* every body holding any of the four fields
Bodies ==
    LET t == {EmptyObject} \cup {WithKey(EmptyObject, "topic", v) : v \in BodyTopics}
        m == t \cup {WithKey(b, "maxRevisionAttempts", v) :
                        b \in t, v \in BodyInts(MinRevisionAttempts, MaxRevisionAttempts)}
        d == m \cup {WithKey(b, "daysBack", v) :
                        b \in m, v \in BodyInts(MinDaysBack, MaxDaysBack)}
    IN  d \cup {WithKey(b, "searchMode", v) : b \in d, v \in {"title", "all", "body", Null}}

\* the cache a request finds: empty, or holding an entry of an earlier preview
FoundCaches ==
    { EmptyCache,
      Put(EmptyCache, "tax_7_title",
          [news_data |-> ItemsUpTo(MainNews), sources |-> convert_to_sources(ItemsUpTo(MainNews))]) }

InitValidate ==
    /\ fnIn \in [endpoint : {"generate", "preview"}, body : Bodies, cache : FoundCaches]
    /\ fnOut = None
    /\ news_cache = fnIn.cache
    /\ pc = [p \in Procs |-> "idle"]
    /\ req = [p \in Procs |-> None]
    /\ loc = [p \in Procs |-> None]
    /\ resp = [p \in Procs |-> None]
    /\ calls = [p \in Procs |-> NoCalls]
    /\ last = None

\* main.py:116, 204: the body is no ColumnRequest and FastAPI answers 422
\* without calling the handler
RejectBody(p) ==
    /\ pc[p] = "idle"
    /\ ~ValidateColumnRequest(fnIn.body).ok
    /\ Respond(p, ErrorResponse(422, ValidateColumnRequest(fnIn.body).error))
    /\ req' = Set(req, p, [kind |-> fnIn.endpoint])
    /\ loc' = Set(loc, p, LocInit)
    /\ UNCHANGED <<news_cache, calls, last, fnIn, fnOut>>

\* main.py:116-138, 204-223: the handler is called with the ColumnRequest
AcceptBody(p) ==
    LET v == ValidateColumnRequest(fnIn.body)
    IN  /\ v.ok
        /\ StartColumnRequest(p, [kind |-> fnIn.endpoint, topic |-> v.value.topic,
                                  maxRevisionAttempts |-> v.value.maxRevisionAttempts,
                                  daysBack |-> v.value.daysBack,
                                  searchMode |-> v.value.searchMode, proceed |-> TRUE])

NextValidate ==
    \E p \in Sequential :
        \/ RejectBody(p)
        \/ AcceptBody(p)

SpecValidate == InitValidate /\ [][NextValidate]_vars

\* the body is one the claim calls invalid
InvalidBody(body) ==
    \/ "topic" \notin DOMAIN body
    \/ Len(body.topic) < 2
    \/ Len(body.topic) > 200
    \/ \A i \in 1..Len(body.topic) : body.topic[i] \in Whitespace
    \/ \E keyword \in ForbiddenKeywords : Contains(body.topic, keyword)
    \/ /\ "maxRevisionAttempts" \in DOMAIN body
       /\ body.maxRevisionAttempts # NoneInt
       /\ body.maxRevisionAttempts[1] \notin 1..5
    \/ /\ "daysBack" \in DOMAIN body
       /\ body.daysBack # NoneInt
       /\ body.daysBack[1] \notin 1..30
    \/ /\ "searchMode" \in DOMAIN body
       /\ body.searchMode \notin {"title", "all"}

\* C15: a generate-column or preview request whose body is invalid (topic
\* missing, shorter than 2 or longer than 200 characters, blank, or holding a
\* forbidden keyword; maxRevisionAttempts outside 1..5; daysBack outside
\* 1..30; searchMode neither 'title' nor 'all') is answered 400 or 422 with
\* no news search, no model call and the cache as it was.
C15_InvalidBodyRejected ==
    \A p \in Procs :
        (pc[p] # "idle" /\ fnIn # None /\ InvalidBody(fnIn.body)) =>
            /\ pc[p] = "done"
            /\ resp[p].status \in {400, 422}
            /\ ~resp[p].success
            /\ calls[p] = NoCalls
            /\ news_cache = fnIn.cache

\* a topic holding a forbidden keyword was rejected while the cache holds an
\* entry
C15_Witness ==
    \E p \in Procs :
        /\ pc[p] = "done"
        /\ fnIn # None
        /\ "topic" \in DOMAIN fnIn.body
        /\ Len(fnIn.body.topic) \in 2..200
        /\ \E keyword \in ForbiddenKeywords : Contains(fnIn.body.topic, keyword)
        /\ resp[p].status = 422
        /\ news_cache # EmptyCache

(***************************************************************************)
(* SpecHttp: one HTTP request passing the middleware stack.  The           *)
(* middleware added last is outermost: RequestLoggingMiddleware, then      *)
(* InputSanitizationMiddleware, then SecurityMiddleware, then the CORS     *)
(* middleware and the routes with their exception handlers.  pc is the     *)
(* dispatch the request or its response is in.                             *)
(***************************************************************************)
MaxRequestSize == 1048576

Methods == {"GET", "POST", "OPTIONS"}

\* a content-type header as its parts; absent, it reads as ""
ContentTypes ==
    { <<>>, <<"application/json">>, <<"application/json", "; charset=utf-8">>,
      <<"text/plain">> }

\* a content-length header, absent or a number
ContentLengths == {NoneInt, Some(0), Some(MaxRequestSize), Some(MaxRequestSize + 1)}

HttpRequests == [method : Methods, content_type : ContentTypes, content_length : ContentLengths]

\* what the CORS middleware, the routes and the exception handlers answer
AppStatuses == {200, 400, 404, 405, 422, 429, 500}

NoHeaders == {}

SecurityHeaders ==
    { <<"X-Content-Type-Options", "nosniff">>, <<"X-Frame-Options", "DENY">>,
      <<"X-XSS-Protection", "1; mode=block">>,
      <<"Referrer-Policy", "strict-origin-when-cross-origin">> }

JSONResponse(status_code) ==
    [status |-> status_code, success |-> status_code < 400, headers |-> NoHeaders]

InitHttp ==
    /\ MainIdle
    /\ fnIn \in HttpRequests
    /\ fnOut = None

\* security.py:88-101: RequestLoggingMiddleware passes the request on
LoggingDispatch(p) ==
    /\ pc[p] = "idle"
    /\ pc' = Set(pc, p, "sanitization")
    /\ UNCHANGED <<req, loc, resp, calls, news_cache, last, fnIn, fnOut>>

\* security.py:65-82: InputSanitizationMiddleware
SanitizationDispatch(p) ==
    /\ pc[p] = "sanitization"
    /\ IF fnIn.method = "POST" /\ ~StartsWith(fnIn.content_type, <<"application/json">>)
       THEN /\ resp' = Set(resp, p, JSONResponse(400))
            /\ pc' = Set(pc, p, "logging")
       ELSE /\ pc' = Set(pc, p, "security")
            /\ UNCHANGED resp
    /\ UNCHANGED <<req, loc, calls, news_cache, last, fnIn, fnOut>>

\* security.py:24-47: SecurityMiddleware up to call_next
SecurityDispatch(p) ==
    /\ pc[p] = "security"
    /\ IF fnIn.content_length # NoneInt /\ fnIn.content_length[1] > MaxRequestSize
       THEN /\ resp' = Set(resp, p, JSONResponse(413))
            /\ pc' = Set(pc, p, "logging")
       ELSE /\ pc' = Set(pc, p, "app")
            /\ UNCHANGED resp
    /\ UNCHANGED <<req, loc, calls, news_cache, last, fnIn, fnOut>>

\* main.py:52-59, 81-104: the CORS middleware, a route or an exception
\* handler answers
AppResponds(p) ==
    /\ pc[p] = "app"
    /\ \E status_code \in AppStatuses : resp' = Set(resp, p, JSONResponse(status_code))
    /\ pc' = Set(pc, p, "headers")
    /\ UNCHANGED <<req, loc, calls, news_cache, last, fnIn, fnOut>>

\* security.py:49-59: SecurityMiddleware after call_next
SecurityReturns(p) ==
    /\ pc[p] = "headers"
    /\ resp' = Set(resp, p, [resp[p] EXCEPT !.headers = @ \cup SecurityHeaders])
    /\ pc' = Set(pc, p, "logging")
    /\ UNCHANGED <<req, loc, calls, news_cache, last, fnIn, fnOut>>

\* security.py:103-114: RequestLoggingMiddleware after call_next; the
\* response leaves the application
LoggingReturns(p) ==
    /\ pc[p] = "logging"
    /\ resp' = Set(resp, p, [resp[p] EXCEPT !.headers = @ \cup {<<"X-Process-Time", "t">>}])
    /\ pc' = Set(pc, p, "done")
    /\ UNCHANGED <<req, loc, calls, news_cache, last, fnIn, fnOut>>

NextHttp ==
    \E p \in Sequential :
        \/ LoggingDispatch(p)
        \/ SanitizationDispatch(p)
        \/ SecurityDispatch(p)
        \/ AppResponds(p)
        \/ SecurityReturns(p)
        \/ LoggingReturns(p)

SpecHttp == InitHttp /\ [][NextHttp]_vars

\* C18: every HTTP response of the application, the 400 for a non-JSON POST
\* and the 413 for an oversized request included, carries
\* X-Content-Type-Options: nosniff and X-Frame-Options: DENY.
C18_SecurityHeadersOnEveryResponse ==
    \A p \in Procs :
        pc[p] = "done" =>
            /\ <<"X-Content-Type-Options", "nosniff">> \in resp[p].headers
            /\ <<"X-Frame-Options", "DENY">> \in resp[p].headers

(***************************************************************************)
(* SpecPreview: preview requests, one at a time, over searches finding     *)
(* 0..MaxNews items.                                                        *)
(***************************************************************************)
NextPreview ==
    \E p \in Sequential :
        \/ StartPreview(p)
        \/ SearchReturns(p, PreviewLists)
        \/ Finish(p)

SpecPreview == InitMain /\ [][NextPreview]_vars

\* slot p holds a preview answered with success
PreviewAnswered(p) ==
    /\ pc[p] = "done"
    /\ req[p].kind = "preview"
    /\ resp[p].status = 200

\* C8: a preview over n found items reports tier "excellent" when n >= 10,
\* "good" when 5 <= n < 10, "fair" when 2 <= n < 5 and "poor" otherwise, lists
\* the first min(n, 5) items, and reports totalAvailable = n.
C8_PreviewTiers ==
    \A p \in Procs :
        PreviewAnswered(p) =>
            LET r == resp[p]
                n == Len(loc[p].news_data)
                k == IF n < 5 THEN n ELSE 5
            IN  /\ (n >= 10) => r.searchQuality = "excellent"
                /\ (5 <= n /\ n < 10) => r.searchQuality = "good"
                /\ (2 <= n /\ n < 5) => r.searchQuality = "fair"
                /\ (n < 2) => r.searchQuality = "poor"
                /\ r.newsItems = SubSeq(loc[p].news_data, 1, k)
                /\ r.newsCount = k
                /\ r.totalAvailable = n

\* a preview over exactly ten items, more than it lists, has been answered
C8_Witness ==
    \E p \in Procs :
        /\ PreviewAnswered(p)
        /\ Len(loc[p].news_data) = 10
        /\ resp[p].searchQuality = "excellent"
        /\ Len(resp[p].newsItems) = 5

(***************************************************************************)
(* SpecAssemble: the response of the two column endpoints built from what  *)
(* the pipeline returned (main.py:144-182, 331-370).                       *)
(***************************************************************************)
MaxOver == 1
LongSummary == 1200

TitleLens == (TitleMinLen - MaxOver)..TitleMinLen \cup TitleMaxLen..(TitleMaxLen + MaxOver)

SummaryLens == (SummaryMinLen - MaxOver)..SummaryMinLen
               \cup (GuardKeep - MaxOver)..(GuardLimit + MaxOver)
               \cup {LongSummary}

\* a summary of n characters with a blank at position GuardKeep when blank
SummaryOf(n, blank) ==
    [i \in 1..n |-> IF blank /\ i = GuardKeep THEN " " ELSE "s"]

PipelineResults ==
    { [title |-> Rep("t", t), summary |-> SummaryOf(n, blank), content |-> c,
       sources |-> convert_to_sources(news)] :
        t \in TitleLens, n \in SummaryLens, blank \in BOOLEAN,
        c \in DocNames, news \in NewsLists }

AssembleInputs ==
    { [endpoint |-> e, article_content |-> a] :
        e \in {"generate", "confirm"}, a \in PipelineResults }

InitAssemble ==
    /\ MainIdle
    /\ fnIn \in AssembleInputs
    /\ fnOut = None

\* main.py:144-182
AssembleGenerate ==
    /\ fnOut = None
    /\ fnIn.endpoint = "generate"
    /\ fnOut' = GenerateColumnResponse(fnIn.article_content)
    /\ UNCHANGED <<fnIn, mainVars>>

\* main.py:331-370
AssembleConfirmed ==
    /\ fnOut = None
    /\ fnIn.endpoint = "confirm"
    /\ fnOut' = ConfirmedResponse(fnIn.article_content)
    /\ UNCHANGED <<fnIn, mainVars>>

NextAssemble == AssembleGenerate \/ AssembleConfirmed

SpecAssemble == InitAssemble /\ [][NextAssemble]_vars

\* r is a success response of a column endpoint
ColumnSuccess(r) == "article" \in DOMAIN r /\ r.status = 200

\* C10: every success response of generate-column and of
\* generate-column-confirmed carries a summary of at most 300 characters and a
\* title of 5 to 100 characters.
C10_SuccessBounds ==
    \A r \in {fnOut} \cup {resp[p] : p \in Procs} :
        ColumnSuccess(r) =>
            /\ Len(r.article.summary) <= 300
            /\ Len(r.article.title) >= 5
            /\ Len(r.article.title) <= 100

\* a pipeline summary longer than 300 characters was answered with success
C10_Witness ==
    /\ fnOut # None
    /\ ColumnSuccess(fnOut)
    /\ Len(fnIn.article_content.summary) > 300
    /\ Len(fnOut.article.summary) <= 300

(***************************************************************************)
(* SpecExtract: extract_title_and_summary applied to generated columns.    *)
(***************************************************************************)
MaxGap == 3
MaxTail == 4
MaxPad == 1

ShortBodies == {1, 10}

\* a paragraph: a letters, b blanks, c letters, with pad blanks on both sides
Paragraph(a, b, c, pad) ==
    Rep(" ", pad) \o Rep("x", a) \o Rep(" ", b) \o Rep("y", c) \o Rep(" ", pad)

\* "## Title" / blank line / paragraph / "## next"
ColumnWith(para) ==
    H2 \o <<"T", "i", "t", "l", "e">> \o <<"\n", "\n">> \o para
       \o <<"\n", "\n">> \o H2 \o <<"n", "e", "x", "t">>

ExtractInputs ==
    { [content |-> ColumnWith(Paragraph(a, b, c, pad)),
       para    |-> Paragraph(a, b, c, pad)] :
        a \in ((SummaryKeep - MaxGap)..SummaryKeep) \cup ShortBodies,
        b \in 0..MaxGap, c \in 0..MaxTail, pad \in 0..MaxPad }

InitExtract ==
    /\ MainIdle
    /\ fnIn \in ExtractInputs
    /\ fnOut = None

ApplyExtract ==
    /\ fnOut = None
    /\ fnOut' = extract_title_and_summary(fnIn.content)
    /\ UNCHANGED <<fnIn, mainVars>>

NextExtract == ApplyExtract

SpecExtract == InitExtract /\ [][NextExtract]_vars

\* C9: extract_title_and_summary returns a summary of at most 300 characters
\* ending with "..." when the summary line (the paragraph line as the code
\* measures it, after strip()) is longer than 300 characters, and returns
\* that line itself when it is 300 characters or shorter.
C9_SummaryClamp ==
    fnOut # None =>
        LET line == Strip(fnIn.para)
        IN  /\ Len(line) > SummaryLimit =>
                /\ Len(fnOut.summary) <= SummaryLimit
                /\ EndsWith(fnOut.summary, Ellipsis)
            /\ Len(line) <= SummaryLimit => fnOut.summary = line

\* a line over 300 characters whose cut at 297 ends in blanks was clamped
C9_Witness ==
    /\ fnOut # None
    /\ Len(Strip(fnIn.para)) > SummaryLimit
    /\ Len(fnOut.summary) < SummaryLimit
    /\ EndsWith(fnOut.summary, Ellipsis)

(***************************************************************************)
(* SpecEval: _parse_evaluation_result applied to answers of the model.     *)
(***************************************************************************)
ScoreChoices == {84, 85, 90}

\* every score object holding any subset of the five dimensions
ScoreObjects == UNION { [S -> ScoreChoices] : S \in SUBSET Dims }

EvalInputs ==
    LET base == { WithKey(WithKey(EmptyObject, "feedback", "fix it"), "revisedContent", "rev") }
        withScores == base \cup { WithKey(d, "scores", sc) : d \in base, sc \in ScoreObjects }
    IN  withScores
        \cup { WithKey(d, "pass", f) : d \in withScores, f \in {"True", "False", Invalid} }

InitEval ==
    /\ MainIdle
    /\ fnIn \in EvalInputs
    /\ fnOut = None

ApplyParse ==
    /\ fnOut = None
    /\ fnOut' = _parse_evaluation_result(fnIn)
    /\ UNCHANGED <<fnIn, mainVars>>

NextEval == ApplyParse

SpecEval == InitEval /\ [][NextEval]_vars

Returned(r) == "ok" \in DOMAIN r /\ r.ok

\* C2: every evaluation result has pass_ true exactly when each of the five
\* scores is at least 85, whatever pass flag the model reported.
C2_PassIffAllScoresPass ==
    Returned(fnOut) =>
        (fnOut.pass_ <=> \A d \in Dims : fnOut.scores[d] >= PassingThreshold)

(***************************************************************************)
(* SpecRevise: evaluate_and_revise applied to what the evaluation model    *)
(* answers: nothing, text that is no JSON, a failed API call, or a JSON    *)
(* object with any subset of the dimension scores.                         *)
(***************************************************************************)
ReviseInputs ==
    {[kind |-> "empty"], [kind |-> "not json"], [kind |-> "api error"]}
        \cup {[kind |-> "json", data |-> d] : d \in EvalInputs}

InitRevise ==
    /\ MainIdle
    /\ fnIn \in ReviseInputs
    /\ fnOut = None

ApplyEvaluate ==
    /\ fnOut = None
    /\ fnOut' = evaluate_and_revise(fnIn)
    /\ UNCHANGED <<fnIn, mainVars>>

NextRevise == ApplyEvaluate

SpecRevise == InitRevise /\ [][NextRevise]_vars

\* the score of dimension d the JSON object data reports, if any
Reported(data, d) == "scores" \in DOMAIN data /\ d \in DOMAIN data.scores

\* C20: evaluate_and_revise fails with ContentGenerationException and nothing
\* else; it fails when the answer of the model is empty or is no JSON; a JSON
\* answer that lacks dimension scores does not fail for that, and every score
\* it lacks is reported as 0.
C20_EvaluateFailures ==
    fnOut # None =>
        /\ ~Returned(fnOut) => fnOut = ContentGenerationException
        /\ fnIn.kind \in {"empty", "not json"} => fnOut = ContentGenerationException
        /\ ( /\ fnIn.kind = "json"
             /\ Get(fnIn.data, "pass", "False") \in {"True", "False"} ) =>
                /\ Returned(fnOut)
                /\ \A d \in Dims :
                        fnOut.scores[d] =
                            IF Reported(fnIn.data, d) THEN fnIn.data.scores[d] ELSE 0

\* an answer reporting some of the five scores but not all was returned with
\* 0 for the others
C20_Witness ==
    /\ fnOut # None
    /\ fnIn.kind = "json"
    /\ \E d \in Dims : Reported(fnIn.data, d)
    /\ \E d \in Dims : ~Reported(fnIn.data, d)
    /\ Returned(fnOut)
    /\ \E d \in Dims : fnOut.scores[d] = 0
    /\ \E d \in Dims : fnOut.scores[d] > 0

(***************************************************************************)
(* SpecNews: _process_news_items applied to lists of raw items.  A text is *)
(* a sequence of characters, with stand-ins for Hangul syllables; a field  *)
(* of an item that is no string is NotStr.  A publication date is a date   *)
(* in the provider's format, with its age in days, some other text, or no  *)
(* string at all.                                                          *)
(***************************************************************************)
NotStr == <<Invalid>>

\* news_search_service.py:239-250, in part
PoliticalKeywords == { <<"jeong", "bu">>, <<"guk", "hoe">>, <<"seon", "geo">> }

\* re.sub(r'<[^>]+>', '', s)
RECURSIVE RemoveTags(_)
RemoveTags(s) ==
    IF s = <<>> THEN <<>>
    ELSE IF Head(s) = "<" /\ \E j \in 3..Len(s) : s[j] = ">"
         THEN LET close == { j \in 2..Len(s) : s[j] = ">" }
                  j == CHOOSE x \in close : \A y \in close : x <= y
              IN  IF j >= 3 THEN RemoveTags(SubSeq(s, j + 1, Len(s)))
                  ELSE <<Head(s)>> \o RemoveTags(Tail(s))
         ELSE <<Head(s)>> \o RemoveTags(Tail(s))

Amp == <<"&", "a", "m", "p", ";">>

\* html.unescape over texts whose only character reference is &amp;
RECURSIVE Unescape(_)
Unescape(s) ==
    IF s = <<>> THEN <<>>
    ELSE IF StartsWith(s, Amp) THEN <<"&">> \o Unescape(SubSeq(s, Len(Amp) + 1, Len(s)))
    ELSE <<Head(s)>> \o Unescape(Tail(s))

\* news_search_service.py:166-167
CleanText(s) == Unescape(RemoveTags(s))

\* str.split()
RECURSIVE Split(_)
Split(s) ==
    LET t == LStrip(s)
    IN  IF t = <<>> THEN <<>>
        ELSE LET ends == { i \in 1..Len(t) : i = Len(t) \/ t[i + 1] \in Whitespace }
                 e == CHOOSE x \in ends : \A y \in ends : x <= y
             IN  <<SubSeq(t, 1, e)>> \o Split(SubSeq(t, e + 1, Len(t)))

\* news_search_service.py:213-228: the age in days of a date in the
\* provider's format, None for anything else
_parse_naver_date(date_str) ==
    IF date_str.kind = "date" THEN Some(date_str.age) ELSE NoneInt

\* news_search_service.py:230-258
_is_political_news(title, description) ==
    LET text == Lower(title \o <<" ">> \o description)
    IN  \E keyword \in PoliticalKeywords : Contains(text, keyword)

\* news_search_service.py:173-175: pub_date < cutoff_date, in days of age
OlderThan(pub_date, days_back) == pub_date # NoneInt /\ pub_date[1] > days_back

\* news_search_service.py:182-190
TitleMatches(title, search_mode, topic) ==
    (search_mode = "title" /\ topic # <<>>) =>
        LET topic_keywords == Split(Lower(topic))
            title_lower == Lower(title)
        IN  \A i \in 1..Len(topic_keywords) : Contains(title_lower, topic_keywords[i])

\* news_search_service.py:163-203: the body of the loop for one item; an
\* exception in it drops the item
ProcessItem(item, days_back, search_mode, topic) ==
    IF item.title = NotStr \/ item.description = NotStr
    THEN [keep |-> FALSE]
    ELSE LET title == CleanText(item.title)
             description == CleanText(item.description)
             pub_date == _parse_naver_date(item.pubDate)
         IN  IF OlderThan(pub_date, days_back) THEN [keep |-> FALSE]
             ELSE IF ~_is_political_news(title, description) THEN [keep |-> FALSE]
             ELSE IF ~TitleMatches(title, search_mode, topic) THEN [keep |-> FALSE]
             ELSE [keep |-> TRUE,
                   item |-> [title |-> title, description |-> description,
                             pubDate |-> item.pubDate, raw |-> item]]

\* the order of the pubDate strings of processed items: isoformat() of a
\* date sorts by time, a text in letters sorts above every date
PubDateKey(d) ==
    CASE d.kind = "date" -> 1000 - d.age
      [] d.kind = "text" -> 2000
      [] OTHER -> 0

\* list.sort(key=pubDate, reverse=True): stable, latest first
RECURSIVE SortLatestFirst(_)
SortLatestFirst(s) ==
    IF Len(s) <= 1 THEN s
    ELSE LET rest == SortLatestFirst(Tail(s))
             k == PubDateKey(Head(s).pubDate)
             before == { i \in 0..Len(rest) :
                            \A j \in 1..i : PubDateKey(rest[j].pubDate) > k }
             n == CHOOSE x \in before : \A y \in before : y <= x
         IN  SubSeq(rest, 1, n) \o <<Head(s)>> \o SubSeq(rest, n + 1, Len(rest))

RECURSIVE ProcessAll(_, _, _, _)
ProcessAll(items, days_back, search_mode, topic) ==
    IF items = <<>> THEN <<>>
    ELSE LET r == ProcessItem(Head(items), days_back, search_mode, topic)
             rest == ProcessAll(Tail(items), days_back, search_mode, topic)
         IN  IF r.keep THEN <<r.item>> \o rest ELSE rest

\* news_search_service.py:141-211; comparing the keys of two items raises
\* TypeError when a pubDate is no string
_process_news_items(items, days_back, search_mode, topic) ==
    LET processed_items == ProcessAll(items, days_back, search_mode, topic)
    IN  IF /\ Len(processed_items) >= 2
           /\ \E i \in 1..Len(processed_items) : processed_items[i].pubDate.kind = "null"
        THEN [ok |-> FALSE, error |-> "TypeError"]
        ELSE [ok |-> TRUE, items |-> SortLatestFirst(processed_items)]

RawTitles ==
    { NotStr,
      <<"t", "a", "x", " ", "j", "e", "o", "n", "g">>,
      <<"T", "a", "x", " ", "jeong", "bu">>,
      <<"v", "a", "t", " ", "t", "a", "x", " ", "guk", "hoe">>,
      <<"jeong", "<", "b", ">", "bu", "<", "/", "b", ">", " ", "v", "a", "t">>,
      <<"t", "a", "x">> }

RawDescriptions ==
    { <<>>, <<"seon", "geo", " ", "&", "a", "m", "p", ";", " ", "t", "a", "x">> }

MaxAgeOver == 1

PubDates ==
    { [kind |-> "date", age |-> a] :
        a \in (DefaultDaysBack - MaxAgeOver)..(DefaultDaysBack + MaxAgeOver) }
    \cup { [kind |-> "text", age |-> 0], [kind |-> "null", age |-> 0] }

RawItems == [title : RawTitles, description : RawDescriptions, pubDate : PubDates]

RawLists == {<<>>} \cup {<<a>> : a \in RawItems} \cup {<<a, b>> : a, b \in RawItems}

NewsTopics == { <<"t", "a", "x">>, <<"T", "a", "x", " ", " ", "v", "a", "t">> }

InitNews ==
    /\ MainIdle
    /\ fnIn \in [items : RawLists, days_back : {DefaultDaysBack},
                 search_mode : {"title", "all"}, topic : NewsTopics]
    /\ fnOut = None

ApplyProcess ==
    /\ fnOut = None
    /\ fnOut' = _process_news_items(fnIn.items, fnIn.days_back, fnIn.search_mode, fnIn.topic)
    /\ UNCHANGED <<fnIn, mainVars>>

NextNews == ApplyProcess

SpecNews == InitNews /\ [][NextNews]_vars

\* the raw item is well formed: its title and description are strings
WellFormed(item) == item.title # NotStr /\ item.description # NotStr

\* the condition under which the raw item is to be kept
ToBeKept(item, days_back, search_mode, topic) ==
    /\ WellFormed(item)
    /\ \/ item.pubDate.kind # "date"
       \/ item.pubDate.age <= days_back
    /\ \E keyword \in PoliticalKeywords :
            \/ Contains(CleanText(item.title), keyword)
            \/ Contains(CleanText(item.description), keyword)
    /\ \/ search_mode # "title"
       \/ \A i \in 1..Len(Split(topic)) :
            Contains(Lower(CleanText(item.title)), Lower(Split(topic)[i]))

\* how often the raw item occurs in a list of raw items, and in the output
TimesIn(items, item) == Cardinality({ i \in 1..Len(items) : items[i] = item })
TimesOut(out, item) == Cardinality({ i \in 1..Len(out) : out[i].raw = item })

\* C21: _process_news_items keeps a raw item exactly when its date is
\* unparseable or not older than now - daysBack, its title or description
\* holds a political term, and searchMode is not 'title' or every token of
\* the topic occurs, whatever the case, in the cleaned title; the output holds
\* no item that was not in the input, and a malformed item is dropped without
\* failing the call.
C21_KeepsExactlyTheMatching ==
    fnOut # None =>
        /\ fnOut.ok
        /\ \A item \in RawItems :
                TimesOut(fnOut.items, item) =
                    IF ToBeKept(item, fnIn.days_back, fnIn.search_mode, fnIn.topic)
                    THEN TimesIn(fnIn.items, item) ELSE 0

(***************************************************************************)
(* SpecSummary: extract_title_and_summary applied to columns made of a few *)
(* lines: headings of the title level, reserved section headings, a        *)
(* sub-heading, blank lines and paragraphs.                                *)
(***************************************************************************)
ColumnLines ==
    { <<>>,
      H2 \o <<"T", "a", "x">>,
      <<" ">> \o H2 \o <<"V", "a", "t">>,
      H2 \o <<EmojiStance, " ", "T", "a", "x", " ", "v", "i", "e", "w">>,
      H2 \o <<EmojiBody, " ">> \o DefaultTitle,
      <<"#", "#", "#", " ", "s", "u", "b">>,
      <<"f", "o", "o">>,
      <<" ", "b", "a", "r", " ">> }

MaxLines == 4

ColumnLineLists == UNION { [1..n -> ColumnLines] : n \in 1..MaxLines }

\* '\n'.join(lines)
RECURSIVE JoinLines(_)
JoinLines(lines) ==
    IF Len(lines) = 1 THEN lines[1]
    ELSE lines[1] \o <<"\n">> \o JoinLines(Tail(lines))

InitSummary ==
    /\ MainIdle
    /\ fnIn \in [lines : ColumnLineLists]
    /\ fnOut = None

ApplySummary ==
    /\ fnOut = None
    /\ fnOut' = extract_title_and_summary(JoinLines(fnIn.lines))
    /\ UNCHANGED <<fnIn, mainVars>>

NextSummary == ApplySummary

SpecSummary == InitSummary /\ [][NextSummary]_vars

\* the lines at which a column has its title heading: the first '## '
\* heading that is not a reserved one
TitleHeadingAt(lines) ==
    { i \in 1..Len(lines) :
        /\ IsTitleHeading(Strip(lines[i]))
        /\ \A j \in 1..(i - 1) : ~IsTitleHeading(Strip(lines[j])) }

\* the non-empty, non-heading lines after line t
ParagraphsAfter(lines, t) ==
    { i \in (t + 1)..Len(lines) :
        Strip(lines[i]) # <<>> /\ ~StartsWith(Strip(lines[i]), <<"#">>) }

\* C22: extract_title_and_summary returns as summary the first non-empty,
\* non-heading line after the title heading, never a line that follows only
\* some other heading, and the placeholder sentence when there is no such
\* line.
C22_SummaryFollowsTitle ==
    fnOut # None =>
        LET at == TitleHeadingAt(fnIn.lines)
            after == IF at = {} THEN {}
                     ELSE ParagraphsAfter(fnIn.lines, CHOOSE t \in at : TRUE)
        IN  fnOut.summary =
                IF after = {} THEN DefaultSummary
                ELSE Strip(fnIn.lines[Min(after)])

(***************************************************************************)
(* SpecRace: preview and confirm requests on one cache key, two at a time. *)
(* The handlers are coroutines of one event loop: a handler runs alone     *)
(* from one await to the next, and at an await the other one may run.      *)
(***************************************************************************)
RacePreview ==
    [kind |-> "preview", topic |-> "tax",
     maxRevisionAttempts |-> Some(DefaultRevisionAttempts),
     daysBack |-> Some(DefaultDaysBack), searchMode |-> "title", proceed |-> TRUE]

RaceConfirm ==
    [kind |-> "confirm", topic |-> "tax",
     maxRevisionAttempts |-> Some(MinRevisionAttempts),
     daysBack |-> Some(DefaultDaysBack), searchMode |-> "title", proceed |-> TRUE]

MaxRaceNews == 2

RaceLists == {ItemsUpTo(n) : n \in 1..MaxRaceNews}

NextRace ==
    \E p \in Procs :
        \/ StartColumnRequest(p, RacePreview)
        \/ StartConfirmRequest(p, RaceConfirm)
        \/ SearchReturns(p, RaceLists)
        \/ DraftFails(p)
        \/ DraftReturns(p)
        \/ EvaluationReturns(p)
        \/ Finish(p)

SpecRace == InitMain /\ [][NextRace]_vars

\* slot p holds a confirm request whose generation returned an article
ConfirmGenerated(p) ==
    /\ pc[p] = "done"
    /\ req[p].kind = "confirm"
    /\ req[p].proceed
    /\ calls[p].extract = 1

\* the response of the confirm endpoint to the article generated in slot p
ArticleResponse(p) ==
    LET ts == TitleAndSummaryOf[loc[p].current_content]
    IN  ConfirmedResponse(GeneratedContent(ts.title, ts.summary,
                                           loc[p].current_content, loc[p].sources))

\* C23: under any interleaving of concurrent confirm requests on one cache
\* key, every confirm whose generation completed returns the article it
\* generated; none fails after generation because another confirm removed
\* the cache entry.
C23_ConfirmReturnsItsArticle ==
    \A p \in Procs : ConfirmGenerated(p) => resp[p] = ArticleResponse(p)


\* slot p holds a confirm request generating from the cache entry it read
UsingEntry(p) ==
    /\ pc[p] \in {"draft", "evaluate"}
    /\ req[p].kind = "confirm"
    /\ loc[p].hit

\* the cache entry the confirm request in slot p read
EntryRead(p) == [news_data |-> loc[p].news_data, sources |-> loc[p].sources]

\* C24: a cache entry written by a preview is used for generation by at most
\* one confirm, and a confirm deletes only the entry it read: an entry that a
\* preview wrote while the confirm was awaiting generation is still in the
\* cache when the confirm has finished.
C24_EntryUsedOnceAndDeletedByReader ==
    [][ /\ \A p, q \in Procs :
              (p # q /\ UsingEntry(p) /\ UsingEntry(q) /\ CacheKey(req[p]) = CacheKey(req[q])) =>
                    EntryRead(p) # EntryRead(q)
        /\ \A p \in Procs : \A k \in DOMAIN news_cache :
              (UsingEntry(p) /\ pc'[p] = "done" /\ k \notin DOMAIN news_cache') =>
                    /\ k = CacheKey(req[p])
                    /\ news_cache[k] = EntryRead(p) ]_vars

(***************************************************************************)
(* SpecKey: a preview stores its news under the key made of its request,   *)
(* and a confirm looks up the key made of its own.  The preview request is *)
(* a valid ColumnRequest; the confirm request is a                         *)
(* ColumnGenerationConfirmRequest, whose topic and searchMode are any      *)
(* strings and whose daysBack is any integer.                              *)
(***************************************************************************)
KeyTopics == {"tax", "ab", "ab_1", "ab_1_7"}

PreviewTriples ==
    [topic : KeyTopics,
     daysBack : {Some(MinDaysBack), Some(DefaultDaysBack), NoneInt},
     searchMode : {"title", "all"}]

ConfirmTriples ==
    [topic : KeyTopics,
     daysBack : {Some(MinDaysBack), Some(DefaultDaysBack)},
     searchMode : {"title", "all", "7_title"}]

InitKey ==
    /\ MainIdle
    /\ fnIn \in [preview : PreviewTriples, confirm : ConfirmTriples]
    /\ fnOut = None

\* main.py:225-231: the preview stores what it found
KeyStore ==
    /\ fnOut = None
    /\ news_cache = EmptyCache
    /\ news_cache' = Put(news_cache, CacheKey(fnIn.preview),
                         [news_data |-> ItemsUpTo(MainNews),
                          sources |-> convert_to_sources(ItemsUpTo(MainNews))])
    /\ UNCHANGED <<pc, req, loc, resp, calls, last, fnIn, fnOut>>

\* main.py:302-306: the confirm looks its key up
KeyLookup ==
    /\ fnOut = None
    /\ news_cache # EmptyCache
    /\ fnOut' = [cache_key |-> CacheKey(fnIn.confirm),
                 hit |-> CacheKey(fnIn.confirm) \in DOMAIN news_cache]
    /\ UNCHANGED <<fnIn, mainVars>>

NextKey == KeyStore \/ KeyLookup

SpecKey == InitKey /\ [][NextKey]_vars

\* C25: a confirm reads a cache entry only if a preview with the identical
\* (topic, daysBack, searchMode) wrote it: two different triples never have
\* the same cache key, for all values the endpoints accept.
C25_KeyIdentifiesTriple ==
    (fnOut # None /\ fnOut.hit) => fnIn.confirm = fnIn.preview

(***************************************************************************)
(* The cache under requests that run one at a time (Spec).                 *)
(***************************************************************************)
\* slot p takes a step of a confirm request that read its news from the cache
CachedConfirmStep(p) ==
    /\ pc[p] # pc'[p]
    /\ pc'[p] # "idle"
    /\ req'[p].kind = "confirm"
    /\ loc'[p].hit

\* C26: when generation from a cached entry fails inside confirm the cache is
\* left as it was and the entry remains; an entry that a preview cached with
\* zero news makes a confirm on its key fail with ContentGenerationException
\* without a search, as long as no preview overwrites it.
C26_FailedConfirmKeepsEntry ==
    [][ \A p \in Procs :
          /\ (CachedConfirmStep(p) /\ pc'[p] = "done" /\ calls'[p].extract = 0) =>
                /\ news_cache' = news_cache
                /\ CacheKey(req'[p]) \in DOMAIN news_cache'
                /\ resp'[p] = ErrorResponse(500, "ContentGenerationException")
          /\ ( /\ pc[p] = "idle" /\ pc'[p] # "idle"
               /\ req'[p].kind = "confirm" /\ req'[p].proceed
               /\ CacheKey(req'[p]) \in DOMAIN news_cache
               /\ news_cache[CacheKey(req'[p])].news_data = <<>> ) =>
                /\ pc'[p] = "done"
                /\ resp'[p] = ErrorResponse(500, "ContentGenerationException")
                /\ calls'[p] = NoCalls
                /\ news_cache' = news_cache ]_vars

\* a second confirm in a row has failed on an entry cached with zero news,
\* which is still there
C26_Witness ==
    \E p \in Procs :
        /\ pc[p] = "done"
        /\ req[p].kind = "confirm"
        /\ loc[p].hit
        /\ loc[p].news_data = <<>>
        /\ resp[p] = ErrorResponse(500, "ContentGenerationException")
        /\ calls[p] = NoCalls
        /\ last # None
        /\ last.kind = "confirm"
        /\ last.key = CacheKey(req[p])
        /\ CacheKey(req[p]) \in DOMAIN news_cache
        /\ news_cache[CacheKey(req[p])].news_data = <<>>


\* the step is the successful end of the preview in slot p, storing an entry
\* under its key
PreviewStores(p) ==
    /\ req[p] # None
    /\ req[p].kind = "preview"
    /\ pc[p] = "search"
    /\ pc'[p] = "done"
    /\ resp'[p].status = 200
    /\ \E entry \in {news_cache'[k] : k \in DOMAIN news_cache'} :
            news_cache' = Put(news_cache, CacheKey(req[p]), entry)

\* the step is the end of a confirm with proceed=true in slot p that read the
\* cache, removing the entry of its key
ConfirmRemoves(p) ==
    /\ req[p] # None
    /\ req[p].kind = "confirm"
    /\ req[p].proceed
    /\ loc[p].hit
    /\ pc'[p] = "done"
    /\ news_cache' = Del(news_cache, CacheKey(req[p]))

\* C27: cache entries are added or overwritten only by a preview and removed
\* only by a confirm with proceed=true that hit the cache; generate-column,
\* the confirm that missed the cache and a failed preview never add, change
\* or remove an entry, so an entry that is never confirmed stays.
C27_CacheWriters ==
    [][ news_cache' # news_cache =>
            \E p \in Procs : PreviewStores(p) \/ ConfirmRemoves(p) ]_vars


\* slot p answers with an article
ArticleReturned(p) ==
    /\ InPipeline(p)
    /\ pc[p] = "done"
    /\ resp[p].status = 200

\* C28: the content of a returned article is the text given to the last
\* evaluation when that evaluation passed, and the revisedContent of the last
\* evaluation otherwise; it is the initial draft, unrevised, exactly when the
\* first evaluation passed or no evaluation ran.
C28_ReturnedContent ==
    \A p \in Procs :
        ArticleReturned(p) =>
            LET content == resp[p].article.content
                e == loc[p].lastEval
            IN  /\ content = loc[p].current_content
                /\ calls[p].eval = 0 <=> e = None
                /\ (e # None /\ e.result.pass_) => content = e.input
                /\ (e # None /\ ~e.result.pass_) => content = e.result.revisedContent
                /\ content \in DraftDocs <=>
                        \/ calls[p].eval = 0
                        \/ calls[p].eval = 1 /\ e.result.pass_

\* an article was returned after a failed and then a passed evaluation: its
\* content is the first revision, not the revision of the passing evaluation
C28_Witness ==
    \E p \in Procs :
        /\ ArticleReturned(p)
        /\ calls[p].eval = 2
        /\ loc[p].lastEval.result.pass_
        /\ resp[p].article.content = loc[p].lastEval.input
        /\ resp[p].article.content \in RevisedDocs
        /\ loc[p].lastEval.result.revisedContent # loc[p].lastEval.input


\* C29: generate_column and generate_column_with_news never return an
\* article whose content is empty: the draft under evaluation and the content
\* returned after any sequence of failing evaluations are non-empty.
C29_ContentNeverEmpty ==
    \A p \in Procs :
        (InPipeline(p) /\ (pc[p] = "evaluate" \/ Returned_Column(p))) =>
            DocText(loc[p].current_content) # <<>>


\* C30: every topic that passed ColumnRequest validation and reached the
\* search step, from where the cache key is made of it, is non-blank, has no
\* leading or trailing whitespace and is 2 to 200 characters long.
C30_AcceptedTopic ==
    \A p \in Procs :
        (pc[p] = "search" /\ fnIn # None /\ req[p].kind \in {"generate", "preview"}) =>
            LET topic == req[p].topic
            IN  /\ \E i \in 1..Len(topic) : topic[i] \notin Whitespace
                /\ topic[1] \notin Whitespace
                /\ topic[Len(topic)] \notin Whitespace
                /\ Len(topic) >= 2
                /\ Len(topic) <= 200

=============================================================================
